---- MODULE Spec2Model ----
(***************************************************************************)
(* HashMap<KeyType, ValueType, Hash> of task1.h: a separate-chaining hash  *)
(* map (a vector of lists of pairs) with golden-ratio growth.  The file    *)
(* holds two versions of the class; they differ in the constructors (the   *)
(* first pre-sizes the table with rehash, the second does not), which the  *)
(* variable `version` selects.                                             *)
(*                                                                         *)
(* Conventions.  A bucket position is 1-based: data[b] is the C++          *)
(* data[b-1], and Len(data)+1 is data.end().  An element position inside a *)
(* chain is 1..Len(chain), Len(chain)+1 is the chain's end(), and 0 is the *)
(* value-initialised list iterator `{}`.                                   *)
(***************************************************************************)
EXTENDS Integers, Sequences, FiniteSets, TLC

\* ------------------------------------------------------------- bounds
MaxKey == 2
MaxVal == 1
MaxListLen == 2
\* keys of the runs that follow the chains through a grow to 7 buckets, and
\* of the runs that follow the growth of the table up to 12 buckets
MaxChainKey == 4
MaxGrowKey == 7

Keys == 1..MaxKey
\* ValueType() is the value 0
Default == 0
Vals == 0..MaxVal
\* hash functions the map is instantiated with: hasher(k) = c * k
\* (c = 0: every key collides; c = 1: the identity, as std::hash<int>)
HashMuls == {0, 1, 2}
Hashers == {[k \in Keys |-> c * k] : c \in HashMuls}
\* a hash whose values lie in different buckets of a table of 4 and in the
\* same bucket of a table of 7, and the identity on a longer range of keys
ChainHasher == [k \in 1..MaxChainKey |-> 7 * k]
GrowHasher == [k \in 1..MaxGrowKey |-> k]

MyPair == [first : Keys, second : Vals]
Pair(k, v) == [first |-> k, second |-> v]

\* sentinels of the observation record: no key, no value, the throw of at
NoKey == 0 - 3
NoVal == 0 - 2
NotFound == 0 - 1

VARIABLES
    version,    \* which of the two class definitions of task1.h is compiled
    hasher,     \* Hash hasher
    data,       \* std::vector<std::list<MyPair>> data
    keyCount,   \* size_t keyCount (countOfKeys in the second version)
    cursor,     \* the iterator of the caller's walk, with the advances so far
    last,       \* the last public call: its arguments and what it returned
    written,    \* history: per key, the value of the pair passed to insert
                \* when no earlier pair of that key was left, NoVal once the
                \* key is erased or the map cleared
    ins,        \* history: the keys passed to insert since the map was last
                \* empty, or NoIns when another mutating call came between
    order       \* history: the keys the map holds, in the order of the
                \* inserts that added them, or NoOrder where it is not kept

vars == <<version, hasher, data, keyCount, cursor, last, written, ins, order>>

\* ------------------------------------------------------- arithmetic
Scale == 1000000000
\* const double MaxLoadFactor = 1.618033988, in units of 1/Scale
MaxLoadFactor == 1618033988
\* MinLoadFactor = MaxLoadFactor * MaxLoadFactor = 2.618033986..., split
\* into its integer part and its fraction in units of 1/Scale
MinLoadFactorWhole == 2
MinLoadFactorFrac == 618033986

\* floor(n * numer / Scale) without leaving 32 bits (n <= 10000)
ScaledFloor(n, numer) ==
    LET hi == numer \div 100000
        lo == numer % 100000
        prod  == n * hi
    IN  (prod \div 10000) + (((prod % 10000) * 100000 + n * lo) \div Scale)

\* (as if MaxLoadFactor were 2)
GrowCapacityDouble(n) == 2 * n + 1
\* static_cast<size_t>(keyCount * MaxLoadFactor + 1)
GrowCapacity(n) == ScaledFloor(n, MaxLoadFactor) + 1

\* (as if the test were keyCount > data.size())
GrowNeededStrict(n, cap) == n > cap
\* keyCount >= data.size()
GrowNeeded(n, cap) == n >= cap

\* (as if the test were keyCount * MinLoadFactor <= bucket.size())
ShrinkNeededOrEqual(n, bucketLen) ==
    MinLoadFactorWhole * n + ScaledFloor(n, MinLoadFactorFrac) <= bucketLen
\* keyCount * MinLoadFactor < bucket.size()
ShrinkNeeded(n, bucketLen) ==
    MinLoadFactorWhole * n + ScaledFloor(n, MinLoadFactorFrac) < bucketLen

\* ------------------------------------------------------ the map, as a value
\* m = [data, keyCount, hasher]: the fields an operation reads and writes
Map(d, n, h) == [data |-> d, hasher |-> h, keyCount |-> n]

Capacity(m) == Len(m.data)

\* size_t bucketIndex(key): hasher(key) % data.size()
bucketIndex(m, key) == (m.hasher[key] % Len(m.data)) + 1

\* position of the first element of the chain with this key, or Len+1
RECURSIVE ScanFrom(_, _, _)
ScanFrom(bucket, key, i) ==
    IF i > Len(bucket) THEN i
    ELSE IF bucket[i].first = key THEN i
    ELSE ScanFrom(bucket, key, i + 1)

\* (as if only the head of the chain were compared)
ScanHeadOnly(bucket, key) ==
    IF bucket # <<>> /\ bucket[1].first = key THEN 1 ELSE Len(bucket) + 1
Scan(bucket, key) == ScanFrom(bucket, key, 1)

\* (as if bucket.erase(bucket.begin()) were called)
RemoveFirst(s, i) == Tail(s)
\* the sequence without its i-th element, and with x in place of it
RemoveAt(s, i) == SubSeq(s, 1, i - 1) \o SubSeq(s, i + 1, Len(s))
ReplaceAt(s, i, x) == SubSeq(s, 1, i - 1) \o <<x>> \o SubSeq(s, i + 1, Len(s))

\* the nested loop of rehash: every element of every bucket, in order
RECURSIVE Elements(_)
Elements(d) == IF d = <<>> THEN <<>> ELSE Head(d) \o Elements(Tail(d))

\* data.resize(n) of an empty vector: n empty lists
RECURSIVE EmptyTable(_)
EmptyTable(n) == IF n = 0 THEN <<>> ELSE Append(EmptyTable(n - 1), <<>>)

\* the key is in the bucket it hashes to: the loop of insert, lines 94-98
InBucket(m, key) ==
    Scan(m.data[bucketIndex(m, key)], key) <= Len(m.data[bucketIndex(m, key)])

\* (as if bucket.push_front(v) were called)
PushFront(m, v) ==
    Map(ReplaceAt(m.data, bucketIndex(m, v.first),
                  <<v>> \o m.data[bucketIndex(m, v.first)]),
        m.keyCount + 1, m.hasher)
\* bucket.push_back(v); ++keyCount;
PushBack(m, v) ==
    Map(ReplaceAt(m.data, bucketIndex(m, v.first),
                  Append(m.data[bucketIndex(m, v.first)], v)),
        m.keyCount + 1, m.hasher)

RECURSIVE insert(_, _), rehash(_, _), InsertEach(_, _)

\* (as if insert assigned the value of a key it finds)
insertOverwrite(m, v) ==
    IF InBucket(m, v.first)
    THEN Map(ReplaceAt(m.data, bucketIndex(m, v.first),
                       ReplaceAt(m.data[bucketIndex(m, v.first)],
                                 Scan(m.data[bucketIndex(m, v.first)], v.first),
                                 v)),
             m.keyCount, m.hasher)
    ELSE IF GrowNeeded(PushBack(m, v).keyCount, Len(PushBack(m, v).data))
         THEN rehash(PushBack(m, v), GrowCapacity(PushBack(m, v).keyCount))
         ELSE PushBack(m, v)

\* void insert(const MyPair &v)
insert(m, v) ==
    IF InBucket(m, v.first) THEN m
    ELSE IF GrowNeeded(PushBack(m, v).keyCount, Len(PushBack(m, v).data))
         THEN rehash(PushBack(m, v), GrowCapacity(PushBack(m, v).keyCount))
         ELSE PushBack(m, v)

\* for (...) insert(element);
InsertEach(m, s) ==
    IF s = <<>> THEN m ELSE InsertEach(insert(m, Head(s)), Tail(s))

\* (as if keyCount = 0 were left out)
ResizedKeepCount(m, bucketSize) ==
    Map(EmptyTable(bucketSize), m.keyCount, m.hasher)
\* old_data(std::move(data)); keyCount = 0; data.resize(bucketSize);
Resized(m, bucketSize) == Map(EmptyTable(bucketSize), 0, m.hasher)

\* (as if the buckets were kept and only their number changed)
rehashNoReinsert(m, bucketSize) ==
    Map(IF bucketSize >= Len(m.data)
        THEN m.data \o EmptyTable(bucketSize - Len(m.data))
        ELSE SubSeq(m.data, 1, bucketSize),
        m.keyCount, m.hasher)
\* void rehash(const size_t bucketSize): old_data takes the buckets, data is
\* resized to bucketSize empty ones, every element of old_data is inserted
rehash(m, bucketSize) ==
    InsertEach(Resized(m, bucketSize), Elements(m.data))

\* the calls of rehash made by insert(v), by the loop of inserts and by
\* rehash(bucketSize) itself, in the order they are entered: the argument,
\* the number of elements of old_data, the number of calls of rehash that
\* are open, and the table and keyCount the call returns with
RECURSIVE insertCalls(_, _, _), rehashCalls(_, _, _), EachCalls(_, _, _)
insertCalls(m, v, open) ==
    IF InBucket(m, v.first) THEN <<>>
    ELSE IF GrowNeeded(PushBack(m, v).keyCount, Len(PushBack(m, v).data))
         THEN rehashCalls(PushBack(m, v), GrowCapacity(PushBack(m, v).keyCount),
                          open + 1)
         ELSE <<>>

EachCalls(m, s, open) ==
    IF s = <<>> THEN <<>>
    ELSE insertCalls(m, Head(s), open)
             \o EachCalls(insert(m, Head(s)), Tail(s), open)

rehashCalls(m, bucketSize, open) ==
    <<[bucketSize |-> bucketSize, entries |-> Len(Elements(m.data)),
       open |-> open, dataAfter |-> rehash(m, bucketSize).data,
       sizeAfter |-> rehash(m, bucketSize).keyCount]>>
        \o EachCalls(Resized(m, bucketSize), Elements(m.data), open)

\* (as if --keyCount were left out)
EraseKeepCount(m, key) ==
    LET ekB == bucketIndex(m, key)
        ekBucket == m.data[ekB]
        ekIt == Scan(ekBucket, key)
    IN  IF ekIt > Len(ekBucket) THEN m
        ELSE Map(ReplaceAt(m.data, ekB, RemoveAt(ekBucket, ekIt)),
                 m.keyCount, m.hasher)

\* (as if --keyCount were outside the test for the key)
EraseCountOnMiss(m, key) ==
    LET ecB == bucketIndex(m, key)
        ecBucket == m.data[ecB]
        ecIt == Scan(ecBucket, key)
    IN  IF ecIt > Len(ecBucket)
        THEN Map(m.data, IF m.keyCount > 0 THEN m.keyCount - 1 ELSE 0, m.hasher)
        ELSE Map(ReplaceAt(m.data, ecB, RemoveAt(ecBucket, ecIt)),
                 m.keyCount - 1, m.hasher)

\* (as if the shrink test compared with data.size())
eraseShrinkByTable(m, key) ==
    LET esB == bucketIndex(m, key)
        esBucket == m.data[esB]
        esIt == Scan(esBucket, key)
    IN  IF esIt > Len(esBucket) THEN m
        ELSE IF ShrinkNeeded(m.keyCount - 1, Len(m.data))
             THEN rehash(Map(ReplaceAt(m.data, esB, RemoveAt(esBucket, esIt)),
                             m.keyCount - 1, m.hasher),
                         GrowCapacity(m.keyCount - 1))
             ELSE Map(ReplaceAt(m.data, esB, RemoveAt(esBucket, esIt)),
                      m.keyCount - 1, m.hasher)

\* void erase(const KeyType& key)
erase(m, key) ==
    LET erB == bucketIndex(m, key)
        erBucket == m.data[erB]
        erIt == Scan(erBucket, key)
    IN  IF erIt > Len(erBucket) THEN m
        ELSE LET removed == Map(ReplaceAt(m.data, erB,
                                          RemoveAt(erBucket, erIt)),
                                m.keyCount - 1, m.hasher)
             IN  IF ShrinkNeeded(removed.keyCount, Len(removed.data[erB]))
                 THEN rehash(removed, GrowCapacity(removed.keyCount))
                 ELSE removed

\* the calls of rehash made by erase(key)
eraseCalls(m, key) ==
    LET ecsB == bucketIndex(m, key)
        ecsBucket == m.data[ecsB]
        ecsIt == Scan(ecsBucket, key)
    IN  IF ecsIt > Len(ecsBucket) THEN <<>>
        ELSE IF ShrinkNeeded(m.keyCount - 1, Len(ecsBucket) - 1)
             THEN rehashCalls(Map(ReplaceAt(m.data, ecsB,
                                            RemoveAt(ecsBucket, ecsIt)),
                                  m.keyCount - 1, m.hasher),
                              GrowCapacity(m.keyCount - 1), 1)
             ELSE <<>>

\* (as if data.clear() were left out: resize(1) keeps the first bucket)
ClearResizeOnly(m) ==
    Map(IF m.data = <<>> THEN EmptyTable(1) ELSE <<m.data[1]>>, 0, m.hasher)
\* void clear(): data.clear(); data.resize(1); keyCount = 0
clear(m) == Map(EmptyTable(1), 0, m.hasher)

\* (as if the loop returned the first element of the bucket)
AtFirstOfBucket(m, key) ==
    LET afBucket == m.data[bucketIndex(m, key)]
    IN  IF afBucket = <<>> THEN NotFound ELSE afBucket[1].second
\* (as if a missing key gave ValueType() instead of the throw)
AtDefaultOnMiss(m, key) ==
    LET admBucket == m.data[bucketIndex(m, key)]
        admI == Scan(admBucket, key)
    IN  IF admI <= Len(admBucket) THEN admBucket[admI].second ELSE Default
\* const ValueType& at(key): the value, or NotFound for the throw
at(m, key) ==
    LET atBucket == m.data[bucketIndex(m, key)]
        atI == Scan(atBucket, key)
    IN  IF atI <= Len(atBucket) THEN atBucket[atI].second ELSE NotFound

\* ------------------------------------------------------------ iterators
\* iterator(bucketIt, elementIt, map)
It(b, e) == [b |-> b, e |-> e]
NoIt == It(0, 0)

\* iterator end(): iterator(data.end(), {}, this)
end(m) == It(Len(m.data) + 1, 0)

\* first non-empty bucket at or after b, or Len+1
RECURSIVE SkipEmpty(_, _)
SkipEmpty(m, b) ==
    IF b > Len(m.data) THEN b
    ELSE IF m.data[b] = <<>> THEN SkipEmpty(m, b + 1)
    ELSE b

\* (as if begin() did not skip the empty buckets)
beginNoSkip(m) == IF m.data[1] = <<>> THEN end(m) ELSE It(1, 1)
\* iterator begin()
begin(m) ==
    LET firstB == SkipEmpty(m, 1)
    IN  IF firstB > Len(m.data) THEN end(m) ELSE It(firstB, 1)

\* the while loop of operator++
RECURSIVE AdvanceLoop(_, _)
AdvanceLoop(m, it) ==
    IF it.b # Len(m.data) + 1 /\ it.e = Len(m.data[it.b]) + 1
    THEN IF it.b + 1 = Len(m.data) + 1
         THEN AdvanceLoop(m, It(it.b + 1, 0))
         ELSE AdvanceLoop(m, It(it.b + 1, 1))
    ELSE it

\* (as if the end of a chain were the end of the walk)
advanceChainOnly(m, it) ==
    IF it.b = Len(m.data) + 1 THEN it
    ELSE IF it.e + 1 <= Len(m.data[it.b]) THEN It(it.b, it.e + 1)
    ELSE end(m)
\* iterator& operator++()
advance(m, it) ==
    IF it.b = Len(m.data) + 1 THEN it
    ELSE AdvanceLoop(m, It(it.b, it.e + 1))

\* (as if a missing key gave the end of its bucket instead of end())
findBucketEnd(m, key) ==
    It(bucketIndex(m, key), Scan(m.data[bucketIndex(m, key)], key))
\* iterator find(key)
find(m, key) ==
    LET findB == bucketIndex(m, key)
        findBucket == m.data[findB]
        findI == Scan(findBucket, key)
    IN  IF findI > Len(findBucket) THEN end(m) ELSE It(findB, findI)

\* the cursor rests on an element of the table
Live(m, it) ==
    /\ it.b \in 1..Len(m.data)
    /\ it.e \in 1..Len(m.data[it.b])

\* operator*: the pair under a cursor that rests on an element
Deref(m, it) == m.data[it.b][it.e]

\* it->second; NoVal stands for the read through a cursor that rests on no
\* element, which no call of the class performs
Second(m, it) == IF Live(m, it) THEN Deref(m, it).second ELSE NoVal

\* size_t size() const, bool empty() const
size(m) == m.keyCount
empty(m) == size(m) = 0

\* for (const auto &it : other): the cursors visited from begin() up to end()
RECURSIVE WalkFrom(_, _, _)
WalkFrom(m, it, fuel) ==
    IF it = end(m) \/ fuel = 0 THEN <<>>
    ELSE <<it>> \o WalkFrom(m, advance(m, it), fuel - 1)

Walk(m) == WalkFrom(m, begin(m), Len(Elements(m.data)) + 1)

\* (as if `it = find(key)` after the insert were left out: the cursor is
\* the end of the bucket the key hashed to before the insert)
IndexNoRefind(m, key) ==
    LET inrIt == find(m, key)
    IN  IF inrIt = end(m)
        THEN [map |-> insert(m, Pair(key, Default)),
              it |-> It(bucketIndex(m, key),
                        Len(m.data[bucketIndex(m, key)]) + 1)]
        ELSE [map |-> m, it |-> inrIt]
\* ValueType& operator[](key): the map afterwards and the cursor whose
\* ->second is returned
Index(m, key) ==
    LET found == find(m, key)
    IN  IF found = end(m)
        THEN LET withKey == insert(m, Pair(key, Default))
             IN  [map |-> withKey, it |-> find(withKey, key)]
        ELSE [map |-> m, it |-> found]

\* the calls of rehash made by operator[](key)
IndexCalls(m, key) ==
    IF find(m, key) = end(m) THEN insertCalls(m, Pair(key, Default), 0)
    ELSE <<>>

\* HashMap(iter begin, iter end) and HashMap(initializer_list): the first
\* version calls rehash(distance * MaxLoadFactor + 1) before the inserts
FromPairs(ver, h, list) ==
    LET cleared == clear(Map(<<>>, 0, h))
        sized == IF ver = 1 THEN rehash(cleared, GrowCapacity(Len(list)))
                 ELSE cleared
    IN  InsertEach(sized, list)

\* the calls of rehash made by these constructors
FromPairsCalls(ver, h, list) ==
    IF ver = 1
    THEN rehashCalls(clear(Map(<<>>, 0, h)), GrowCapacity(Len(list)), 1)
             \o EachCalls(rehash(clear(Map(<<>>, 0, h)),
                                 GrowCapacity(Len(list))), list, 0)
    ELSE EachCalls(clear(Map(<<>>, 0, h)), list, 0)

\* the pairs a walk rests on, in the order of the walk
RECURSIVE Visited(_, _)
Visited(m, w) ==
    IF w = <<>> THEN <<>> ELSE <<Deref(m, Head(w))>> \o Visited(m, Tail(w))

\* HashMap(const HashMap &other) and the body of operator= for another
\* object: the first version calls rehash(other.data.size()) before the
\* inserts, the second does not
copy(ver, other) ==
    LET cpCleared == clear(Map(<<>>, 0, other.hasher))
        cpSized == IF ver = 1 THEN rehash(cpCleared, Len(other.data))
                   ELSE cpCleared
    IN  InsertEach(cpSized, Visited(other, Walk(other)))

\* the calls of rehash made by a copy
copyCalls(ver, other) ==
    IF ver = 1
    THEN rehashCalls(clear(Map(<<>>, 0, other.hasher)), Len(other.data), 1)
             \o EachCalls(rehash(clear(Map(<<>>, 0, other.hasher)),
                                 Len(other.data)),
                          Visited(other, Walk(other)), 0)
    ELSE EachCalls(clear(Map(<<>>, 0, other.hasher)),
                   Visited(other, Walk(other)), 0)

\* ------------------------------------------------------------- the state
M == Map(data, keyCount, hasher)

Lists == UNION {[1..n -> MyPair] : n \in 0..MaxListLen}

NoCursor == [pos |-> NoIt, n |-> 0]
NoIns == {NoKey}
NoneWritten == [k \in DOMAIN hasher |-> NoVal]
NoOrder == <<NoKey>>

Call(op, key, val, list, ret, err, it, rehashes) ==
    [op |-> op, key |-> key, val |-> val, list |-> list, ret |-> ret,
     err |-> err, it |-> it, rehashes |-> rehashes, had |-> key # NoKey /\ find(M, key) # end(M),
     sizeBefore |-> keyCount, capBefore |-> Len(data),
     reinsert |-> op = "insert" /\ last.op = "erase" /\ last.key = key
                  /\ last.had]

\* history of the pairs handed to insert, kept apart from the table
RECURSIVE WrittenEach(_, _)
WrittenEach(w, list) ==
    IF list = <<>> THEN w
    ELSE LET v == Head(list)
         IN  WrittenEach([k \in DOMAIN w |-> IF k = v.first /\ w[k] = NoVal
                                          THEN v.second ELSE w[k]],
                         Tail(list))

WrittenAfter(call) ==
    CASE call.op = "insert" -> WrittenEach(written, <<Pair(call.key, call.val)>>)
      [] call.op = "index" -> WrittenEach(written, <<Pair(call.key, Default)>>)
      [] call.op = "erase" ->
             [k \in DOMAIN written |->
                 IF k = call.key THEN NoVal ELSE written[k]]
      [] call.op = "clear" -> NoneWritten
      [] call.op \in {"HashMapRange", "HashMapList", "HashMapCopy", "assign"} ->
             WrittenEach(NoneWritten, call.list)
      [] OTHER -> written

InsAfter(call, w) ==
    IF w = NoneWritten THEN {}
    ELSE IF call.op \in {"HashMapRange", "HashMapList", "HashMapCopy", "assign"}
         THEN {call.list[i].first : i \in 1..Len(call.list)}
    ELSE IF call.op = "insert"
         THEN IF ins = NoIns THEN NoIns ELSE ins \cup {call.key}
    ELSE IF call.op \in {"at", "find", "begin", "advance", "assignSelf"}
         THEN ins
    ELSE NoIns

\* the keys of a list, each at its first occurrence
RECURSIVE FirstKeys(_, _)
FirstKeys(list, seen) ==
    IF list = <<>> THEN <<>>
    ELSE IF Head(list).first \in seen THEN FirstKeys(Tail(list), seen)
    ELSE <<Head(list).first>>
             \o FirstKeys(Tail(list), seen \cup {Head(list).first})

OrderAfter(call) ==
    IF order = NoOrder THEN NoOrder
    ELSE CASE call.op \in {"insert", "index"} ->
                  IF call.had THEN order ELSE Append(order, call.key)
           [] call.op = "erase" -> SelectSeq(order, LAMBDA x : x # call.key)
           [] call.op = "clear" -> <<>>
           [] call.op \in {"HashMapRange", "HashMapList", "HashMapCopy",
                           "assign"} -> FirstKeys(call.list, {})
           [] OTHER -> order

\* what the caller keeps of a call that left the map as m; the caller
\* holds a cursor only during a walk that no other call interrupts
Observe(m, call) ==
    /\ last' = call
    /\ cursor' = NoCursor
    /\ written' = WrittenAfter(call)
    /\ ins' = InsAfter(call, WrittenAfter(call))
    /\ order' = OrderAfter(call)

\* explicit HashMap(Hash _hasher = Hash()) : hasher(_hasher) { clear(); }
Init ==
    /\ version \in {1, 2}
    /\ hasher \in Hashers
    /\ data = clear(Map(<<>>, 0, hasher)).data
    /\ keyCount = clear(Map(<<>>, 0, hasher)).keyCount
    /\ cursor = NoCursor
    /\ last = [op |-> "HashMap", key |-> NoKey, val |-> NoVal, list |-> <<>>,
               ret |-> NoVal, err |-> FALSE, it |-> NoIt, had |-> FALSE,
               sizeBefore |-> 0, capBefore |-> 0, reinsert |-> FALSE,
               rehashes |-> <<>>]
    /\ written = NoneWritten
    /\ ins = {}
    /\ order = NoOrder

\* a constructor runs once, before any other call on the object
Fresh == last.op = "HashMap"

\* template<typename iter> HashMap(iter begin, iter end, Hash)
ConstructRange(list) ==
    /\ Fresh
    /\ data' = FromPairs(version, hasher, list).data
    /\ keyCount' = FromPairs(version, hasher, list).keyCount
    /\ Observe(FromPairs(version, hasher, list),
               Call("HashMapRange", NoKey, NoVal, list, NoVal, FALSE, NoIt,
                    FromPairsCalls(version, hasher, list)))
    /\ UNCHANGED <<version, hasher>>

\* HashMap(const std::initializer_list<MyPair> &list, Hash)
ConstructList(list) ==
    /\ Fresh
    /\ data' = FromPairs(version, hasher, list).data
    /\ keyCount' = FromPairs(version, hasher, list).keyCount
    /\ Observe(FromPairs(version, hasher, list),
               Call("HashMapList", NoKey, NoVal, list, NoVal, FALSE, NoIt,
                    FromPairsCalls(version, hasher, list)))
    /\ UNCHANGED <<version, hasher>>

\* HashMap b(a): a is the map followed so far, b the one followed from here
CopyConstruct ==
    /\ data' = copy(version, M).data
    /\ keyCount' = copy(version, M).keyCount
    /\ Observe(copy(version, M),
               Call("HashMapCopy", NoKey, NoVal, Visited(M, Walk(M)), NoVal,
                    FALSE, NoIt, copyCalls(version, M)))
    /\ UNCHANGED <<version, hasher>>

\* b = a: with self, a = a, which the test &other != this leaves alone;
\* otherwise a is the map followed so far and b the one followed from here
\* (whatever b held is cleared away first)
CopyAssign(self) ==
    /\ data' = IF self THEN data ELSE copy(version, M).data
    /\ keyCount' = IF self THEN keyCount ELSE copy(version, M).keyCount
    /\ Observe(IF self THEN M ELSE copy(version, M),
               Call(IF self THEN "assignSelf" ELSE "assign", NoKey, NoVal,
                    IF self THEN <<>> ELSE Visited(M, Walk(M)), NoVal, FALSE,
                    NoIt, IF self THEN <<>> ELSE copyCalls(version, M)))
    /\ UNCHANGED <<version, hasher>>

Insert(k, v) ==
    /\ data' = insert(M, Pair(k, v)).data
    /\ keyCount' = insert(M, Pair(k, v)).keyCount
    /\ Observe(insert(M, Pair(k, v)),
               Call("insert", k, v, <<>>, NoVal, FALSE, NoIt,
                    insertCalls(M, Pair(k, v), 0)))
    /\ UNCHANGED <<version, hasher>>

Erase(k) ==
    /\ data' = erase(M, k).data
    /\ keyCount' = erase(M, k).keyCount
    /\ Observe(erase(M, k),
               Call("erase", k, NoVal, <<>>, NoVal, FALSE, NoIt,
                    eraseCalls(M, k)))
    /\ UNCHANGED <<version, hasher>>

\* m[k]: the value read through the reference returned
IndexAccess(k) ==
    /\ data' = Index(M, k).map.data
    /\ keyCount' = Index(M, k).map.keyCount
    /\ Observe(Index(M, k).map,
               Call("index", k, NoVal, <<>>,
                    Second(Index(M, k).map, Index(M, k).it), FALSE,
                    Index(M, k).it, IndexCalls(M, k)))
    /\ UNCHANGED <<version, hasher>>

\* at is const: the throw is the only way it reports an error
At(k) ==
    /\ Observe(M, Call("at", k, NoVal, <<>>, at(M, k), at(M, k) = NotFound,
                       NoIt, <<>>))
    /\ UNCHANGED <<version, hasher, data, keyCount>>

Find(k) ==
    /\ Observe(M, Call("find", k, NoVal, <<>>, NoVal, FALSE, find(M, k),
                       <<>>))
    /\ UNCHANGED <<version, hasher, data, keyCount>>

Clear ==
    /\ data' = clear(M).data
    /\ keyCount' = clear(M).keyCount
    /\ Observe(clear(M), Call("clear", NoKey, NoVal, <<>>, NoVal, FALSE, NoIt,
                             <<>>))
    /\ UNCHANGED <<version, hasher>>

\* auto it = map.begin();
IterBegin ==
    /\ cursor' = [pos |-> begin(M), n |-> 0]
    /\ last' = Call("begin", NoKey, NoVal, <<>>, NoVal, FALSE, begin(M), <<>>)
    /\ UNCHANGED <<version, hasher, data, keyCount, written, ins, order>>

\* ++it;
IterAdvance ==
    /\ cursor # NoCursor
    /\ cursor' = [pos |-> advance(M, cursor.pos),
                  n |-> IF cursor.pos = end(M) THEN cursor.n ELSE cursor.n + 1]
    /\ last' = Call("advance", NoKey, NoVal, <<>>, NoVal, FALSE,
                    advance(M, cursor.pos), <<>>)
    /\ UNCHANGED <<version, hasher, data, keyCount, written, ins, order>>

Next ==
    \/ Fresh /\ \E list \in Lists : ConstructRange(list)
    \/ Fresh /\ \E list \in Lists : ConstructList(list)
    \/ CopyConstruct
    \/ \E self \in BOOLEAN : CopyAssign(self)
    \/ \E k \in Keys, v \in Vals : Insert(k, v)
    \/ \E k \in Keys : Erase(k)
    \/ \E k \in Keys : IndexAccess(k)
    \/ \E k \in Keys : At(k)
    \/ \E k \in Keys : Find(k)
    \/ Clear
    \/ IterBegin
    \/ IterAdvance

Spec == Init /\ [][Next]_vars

\* a default-constructed map of int keys with one of the two wider hashes,
\* to which the caller applies insert and erase only; the keys are the
\* domain of the hash, and the order of the inserts is kept in the runs
\* that follow the chains
InitWide ==
    /\ version \in {1, 2}
    /\ hasher \in {ChainHasher, GrowHasher}
    /\ data = clear(Map(<<>>, 0, hasher)).data
    /\ keyCount = clear(Map(<<>>, 0, hasher)).keyCount
    /\ cursor = NoCursor
    /\ last = [op |-> "HashMap", key |-> NoKey, val |-> NoVal, list |-> <<>>,
               ret |-> NoVal, err |-> FALSE, it |-> NoIt, had |-> FALSE,
               sizeBefore |-> 0, capBefore |-> 0, reinsert |-> FALSE,
               rehashes |-> <<>>]
    /\ written = NoneWritten
    /\ ins = {}
    /\ order = IF hasher = ChainHasher THEN <<>> ELSE NoOrder

NextWide ==
    \/ \E k \in DOMAIN hasher : Insert(k, Default)
    \/ \E k \in DOMAIN hasher : Erase(k)

SpecWide == InitWide /\ [][NextWide]_vars

\* the map as the step leaves it
MNext == Map(data', keyCount', hasher')

\* ------------------------------------------------------ reading the table
\* what the table holds, read off the buckets without any lookup
Positions(m) ==
    UNION {{It(b, e) : e \in 1..Len(m.data[b])} : b \in 1..Len(m.data)}

StoredVals(m, k) ==
    {Deref(m, it).second : it \in {p \in Positions(m) : Deref(m, p).first = k}}

\* value of the first pair of the list with key k, NotFound when none has it
RECURSIVE FirstOf(_, _)
FirstOf(list, k) ==
    IF list = <<>> THEN NotFound
    ELSE IF Head(list).first = k THEN Head(list).second
    ELSE FirstOf(Tail(list), k)

IsCtor(call) == call.op \in {"HashMapRange", "HashMapList"}

\* ----------------------------------------------------------------- claims

\* C1: after a sequence of insert calls applied to an empty map, iterating
\* from begin() to end() yields each distinct inserted key exactly once and
\* size() is the number of distinct keys inserted.
C1_Uniqueness ==
    ins # NoIns =>
        LET w == Walk(M)
        IN  /\ \A i \in 1..Len(w) : Live(M, w[i]) /\ Deref(M, w[i]).first \in ins
            /\ \A k \in ins :
                   Cardinality({i \in 1..Len(w) : Live(M, w[i])
                                    /\ Deref(M, w[i]).first = k}) = 1
            /\ size(M) = Cardinality(ins)

\* every key was inserted, the last insert was a duplicate, two keys share
\* a chain
C1_Witness ==
    /\ ins = Keys
    /\ last.op = "insert" /\ last.had
    /\ \E b \in 1..Len(data) : Len(data[b]) >= 2
    /\ Len(Walk(M)) = MaxKey

\* C2 as stated: insert(k, v1) directly followed by insert(k, v2) leaves
\* at(k) = v1, and a map built from a list of pairs holds for each key the
\* value of its first occurrence, size() counting the distinct keys.
C2_CtorFirstWins(m, call) ==
    IsCtor(call) =>
        /\ \A k \in Keys : at(m, k) = FirstOf(call.list, k)
        /\ size(m) = Cardinality({call.list[i].first : i \in 1..Len(call.list)})

C2_CtorWitness ==
    /\ IsCtor(last) /\ Len(last.list) = 2
    /\ last.list[1].first = last.list[2].first
    /\ last.list[1].second # last.list[2].second
    /\ size(M) = 1

\* C3 as stated, at the state a call insert(k, v) returns to: the pair was
\* passed to insert and k was not erased since, so at(k) and indexAccess(k)
\* return v.
C3_AsStated ==
    last.op = "insert" =>
        /\ at(M, last.key) = last.val
        /\ Second(Index(M, last.key).map, Index(M, last.key).it) = last.val

\* C3, amended: for every pair (k, v) passed to insert while no pair of key
\* k was in the map, and k neither erased nor cleared away since, at(k) and
\* indexAccess(k) return v.
C3_RoundTrip ==
    \A k \in Keys :
        written[k] # NoVal =>
            /\ at(M, k) = written[k]
            /\ Second(Index(M, k).map, Index(M, k).it) = written[k]
            /\ Index(M, k).map = M

\* at(k) has just returned the value of the first of two inserts of k
C3_Witness ==
    /\ last.op = "at" /\ ~last.err
    /\ last.ret = written[last.key]
    /\ last.ret # Default
    /\ size(M) >= 2

\* C4 as stated: for any key k, erase(k) directly followed by insert(k, v2)
\* gives at(k) = v2 and the size() there was before the erase.
C4_AsStated ==
    [][(last.op = "erase" /\ last'.op = "insert" /\ last'.key = last.key)
        => /\ at(MNext, last.key) = last'.val
           /\ size(MNext) = last.sizeBefore]_vars

\* C4, amended: for a key k that is present, erase(k) directly followed by
\* insert(k, v2) gives at(k) = v2 and the size() there was before the erase.
C4_EraseReinsert ==
    [][(last.op = "erase" /\ last.had
            /\ last'.op = "insert" /\ last'.key = last.key)
        => /\ at(MNext, last.key) = last'.val
           /\ size(MNext) = last.sizeBefore]_vars

\* a present key was erased and at once inserted again, with a value that
\* is not the default
C4_Witness ==
    /\ last.op = "insert" /\ last.reinsert
    /\ at(M, last.key) = last.val
    /\ last.val # Default
    /\ size(M) = last.sizeBefore + 1
    /\ size(M) >= 2

\* C5: erase of a present key k takes one off size(), makes at(k) fail and
\* find(k) return end(), and leaves every other key with its value.
C5_ErasePresent ==
    [][(last'.op = "erase" /\ StoredVals(M, last'.key) # {})
        => /\ size(MNext) = size(M) - 1
           /\ at(MNext, last'.key) = NotFound
           /\ find(MNext, last'.key) = end(MNext)
           /\ StoredVals(MNext, last'.key) = {}
           /\ \A j \in Keys \ {last'.key} :
                  /\ StoredVals(MNext, j) = StoredVals(M, j)
                  /\ at(MNext, j) = at(M, j)]_vars

\* a key has been erased from a chain it shared with a key that stays
C5_Witness ==
    /\ last.op = "erase" /\ last.had
    /\ size(M) = last.sizeBefore - 1
    /\ data[bucketIndex(M, last.key)] # <<>>

\* C6: in every state the walk from begin() reaches end() after exactly
\* size() advances, visits exactly the entries of the table, each once, and
\* never rests on an empty bucket; a cursor the caller advances step by
\* step is at each step where that walk is.
C6_IterationComplete ==
    LET w == Walk(M)
    IN  /\ Len(w) = size(M)
        /\ {w[i] : i \in 1..Len(w)} = Positions(M)
        /\ \A i, j \in 1..Len(w) : w[i] = w[j] => i = j
        /\ \A i \in 1..Len(w) : Live(M, w[i])
        /\ cursor # NoCursor =>
               cursor.pos = IF cursor.n < Len(w) THEN w[cursor.n + 1] ELSE end(M)

\* the caller's cursor has reached end() over a table with an empty bucket
\* before, between and after two occupied ones
C6_Witness ==
    /\ cursor # NoCursor /\ cursor.pos = end(M)
    /\ cursor.n = size(M) /\ size(M) >= 2
    /\ data[1] = <<>> /\ data[Len(data)] = <<>>
    /\ Cardinality({b \in 1..Len(data) : data[b] # <<>>}) >= 2

\* C7: after any insert (a new key, a duplicate, or one that grew the
\* table) size() < capacity.
C7_LoadFactor ==
    last.op = "insert" => size(M) < Capacity(M)

\* an insert has just grown the table
C7_Witness ==
    /\ last.op = "insert" /\ ~last.had
    /\ Capacity(M) > last.capBefore
    /\ last.capBefore >= 2
    /\ size(M) < Capacity(M)

\* C8: at(k) fails with NotFound exactly when k is absent and otherwise
\* returns the value stored for k; either way the map is unchanged; no
\* other call reports an error.
C8_AtNotFound ==
    [][/\ last'.op = "at" =>
            /\ last'.err <=> StoredVals(M, last'.key) = {}
            /\ last'.err <=> last'.ret = NotFound
            /\ ~last'.err => StoredVals(M, last'.key) = {last'.ret}
            /\ MNext = M
       /\ last'.op # "at" => ~last'.err]_vars

\* at has failed for an absent key of a map that holds other keys
C8_Witness ==
    /\ last.op = "at" /\ last.err
    /\ size(M) >= 1
    /\ data[bucketIndex(M, last.key)] # <<>>

\* C9: indexAccess(k) never fails; for an absent k it inserts k with the
\* default value, size() grows by one and the reference returned is the
\* entry of k in the table as it is after the call (after a grow rehash,
\* if any); for a present k it returns the stored value and changes
\* nothing.
C9_IndexAccess ==
    [][last'.op = "index" =>
        /\ ~last'.err
        /\ Live(MNext, last'.it)
        /\ Live(MNext, last'.it) => Deref(MNext, last'.it).first = last'.key
        /\ last'.ret = Second(MNext, last'.it)
        /\ IF StoredVals(M, last'.key) = {}
           THEN /\ size(MNext) = size(M) + 1
                /\ last'.ret = Default
                /\ StoredVals(MNext, last'.key) = {Default}
           ELSE /\ MNext = M
                /\ StoredVals(M, last'.key) = {last'.ret}]_vars

\* indexAccess of an absent key has grown the table and returned the
\* default value from the new table
C9_Witness ==
    /\ last.op = "index" /\ ~last.had
    /\ last.ret = Default
    /\ Capacity(M) > last.capBefore
    /\ size(M) = last.sizeBefore + 1
    /\ last.sizeBefore >= 1

\* C10: right after default construction and right after clear(),
\* size() = 0, empty(), begin() = end() and the table is one empty bucket.
C10_EmptyMap ==
    last.op \in {"HashMap", "clear"} =>
        /\ size(M) = 0
        /\ empty(M)
        /\ begin(M) = end(M)
        /\ data = <<<<>>>>

\* clear() has emptied a map of several keys and buckets
C10_Witness ==
    /\ last.op = "clear"
    /\ last.sizeBefore >= 2 /\ last.capBefore >= 4
    /\ size(M) = 0 /\ Capacity(M) = 1

\* C11: find(k) returns a cursor on the entry of key k, in bucket
\* hash(k) mod capacity, when k is present, returns end() exactly when k is
\* absent, and leaves the map as it was.
C11_Find ==
    [][last'.op = "find" =>
        /\ MNext = M
        /\ last'.it = end(M) <=> StoredVals(M, last'.key) = {}
        /\ StoredVals(M, last'.key) # {} =>
               /\ Live(M, last'.it)
               /\ Live(M, last'.it) => Deref(M, last'.it).first = last'.key
               /\ last'.it.b - 1 = hasher[last'.key] % Capacity(M)]_vars

\* find has returned a cursor on the second entry of a chain
C11_Witness ==
    /\ last.op = "find" /\ last.had
    /\ last.it.e = 2
    /\ Deref(M, last.it).first = last.key
    /\ Capacity(M) >= 2

\* C12: insert of a key that is present and erase of a key that is absent
\* leave the whole map as it was: size, capacity, every chain with its
\* entries, their order and their values.
C12_NoOpFrame ==
    [][/\ (last'.op = "insert" /\ StoredVals(M, last'.key) # {}) => MNext = M
       /\ (last'.op = "erase" /\ StoredVals(M, last'.key) = {}) => MNext = M]_vars

\* an absent key has been erased from a map whose bucket for that key
\* holds another key
C12_Witness ==
    /\ last.op = "erase" /\ ~last.had
    /\ data[bucketIndex(M, last.key)] # <<>>
    /\ size(M) = last.sizeBefore /\ size(M) >= 1

\* C13: copy construction and copy assignment give a map with the capacity,
\* the size and the key-to-value mapping of the source; self-assignment
\* leaves the map as it was.
C13_CopyMirrors ==
    [][/\ last'.op \in {"HashMapCopy", "assign"} =>
            /\ Capacity(MNext) = Capacity(M)
            /\ size(MNext) = size(M)
            /\ \A k \in Keys : StoredVals(MNext, k) = StoredVals(M, k)
       /\ last'.op = "assignSelf" => MNext = M]_vars

\* what the copies of both versions have in common: the size and the
\* key-to-value mapping of the source
C13_CopyMapping ==
    [][/\ last'.op \in {"HashMapCopy", "assign"} =>
            /\ size(MNext) = size(M)
            /\ \A k \in Keys : StoredVals(MNext, k) = StoredVals(M, k)
            /\ version = 1 => MNext = M
       /\ last'.op = "assignSelf" => MNext = M]_vars

\* C14 as stated: in every state, a map that holds zero entries has
\* capacity 1.
C14_AsStated ==
    size(M) = 0 => Capacity(M) = 1

\* C14, amended: in every state the capacity is at least 1; a map has zero
\* entries and capacity 1 right after default construction, construction
\* from an empty range or list, and clear(); erase leaves the capacity as
\* it was, also when it removes the last entry.
C14_EmptyCapacity ==
    /\ Capacity(M) >= 1
    /\ (last.op \in {"HashMap", "clear"} \/ (IsCtor(last) /\ last.list = <<>>))
           => (size(M) = 0 /\ Capacity(M) = 1)
    /\ last.op = "erase" => Capacity(M) = last.capBefore

\* the last entry of a map of several buckets has been erased
C14_Witness ==
    /\ last.op = "erase" /\ last.had
    /\ size(M) = 0 /\ Elements(data) = <<>>
    /\ Capacity(M) >= 4

\* place of x in a sequence that holds it once
Pos(seq, x) == CHOOSE i \in 1..Len(seq) : seq[i] = x

\* the keys of a sequence of pairs
RECURSIVE FirstsOf(_)
FirstsOf(list) ==
    IF list = <<>> THEN <<>> ELSE <<Head(list).first>> \o FirstsOf(Tail(list))

\* the elements of sub stand in seq, in the order they have in sub
RECURSIVE InOrder(_, _)
InOrder(sub, seq) ==
    IF sub = <<>> THEN TRUE
    ELSE IF seq = <<>> THEN FALSE
    ELSE IF Head(sub) = Head(seq) THEN InOrder(Tail(sub), Tail(seq))
    ELSE InOrder(sub, Tail(seq))

\* C15 as stated: in every state, two keys of the same chain stand in the
\* order in which they were inserted into the map.
C15_AsStated ==
    order # NoOrder =>
        \A b \in 1..Len(data) : \A i, j \in 1..Len(data[b]) :
            i < j => Pos(order, data[b][i].first) < Pos(order, data[b][j].first)

\* the keys in the order in which a step finds them when it refills or
\* keeps the chains: the walk of the table before the step, a new pair
\* standing at the end of the chain its key hashes to in that table
C15_OrderBefore ==
    FirstsOf(Elements(
        IF last'.op = "insert" /\ StoredVals(M, last'.key) = {}
        THEN ReplaceAt(data, (hasher[last'.key] % Len(data)) + 1,
                       Append(data[(hasher[last'.key] % Len(data)) + 1],
                              Pair(last'.key, last'.val)))
        ELSE data))

\* C15, amended: the entries of a chain are ordered by the time they were
\* put into that chain: insert appends at the end of the chain, erase
\* keeps the order of the entries that stay, and a grow rehash refills the
\* chains in the iteration order of the old table, bucket after bucket, so
\* that two keys that shared a chain keep their order while keys from
\* different chains stand in the order of their old buckets.
C15_ChainOrder ==
    [][\A b \in 1..Len(data') :
           Len(data'[b]) >= 2 => InOrder(FirstsOf(data'[b]), C15_OrderBefore)]_vars

\* a grow from 4 to 7 buckets has gathered keys of different chains in one
\* chain, where they do not stand in the order of their inserts
C15_Witness ==
    /\ order # NoOrder
    /\ last.op = "insert" /\ last.capBefore = 4 /\ Capacity(M) = 7
    /\ \E b \in 1..Len(data) :
           /\ Len(data[b]) >= 3
           /\ Pos(order, data[b][1].first) > Pos(order, data[b][2].first)

\* every entry of a table sits in the bucket hasher(key) % data.size()
WellIndexed(d, h) ==
    /\ Len(d) >= 1
    /\ \A b \in 1..Len(d) : \A i \in 1..Len(d[b]) :
           h[d[b][i].first] % Len(d) = b - 1

\* C16: in every state, and whenever a rehash inside a call has refilled
\* the table, the table has at least one bucket and every entry sits in
\* the bucket hash(key) mod capacity; no rehash is called for 0 buckets.
C16_WellIndexed ==
    /\ WellIndexed(data, hasher)
    /\ \A i \in 1..Len(last.rehashes) :
           /\ last.rehashes[i].bucketSize >= 1
           /\ WellIndexed(last.rehashes[i].dataAfter, hasher)

\* a grow rehash inside insert has spread a chain of two keys over two
\* buckets
C16_Witness ==
    /\ last.op = "insert" /\ Len(last.rehashes) = 1
    /\ last.capBefore = 2 /\ Capacity(M) = 4
    /\ Cardinality({b \in 1..Len(data) : data[b] # <<>>}) = 2
    /\ size(M) = 2

\* the capacities the claim lists for a map that grows from empty
GrowthSequence == <<1, 2, 4, 7, 12>>

\* C17: an insert that appends a new key rehashes exactly when the new
\* size is >= the capacity, and then once, to floor(size * 1.618033988) + 1
\* buckets, the next capacity of 1, 2, 4, 7, 12 for a map grown from empty;
\* otherwise the capacity and the place of every entry stay as they were.
C17_GrowthRule ==
    [][(last'.op = "insert" /\ StoredVals(M, last'.key) = {}) =>
        /\ size(MNext) = size(M) + 1
        /\ last'.rehashes # <<>> <=> size(MNext) >= Capacity(M)
        /\ Capacity(MNext) # Capacity(M) <=> size(MNext) >= Capacity(M)
        /\ size(MNext) >= Capacity(M) =>
               /\ Capacity(MNext) = GrowCapacity(size(MNext))
               /\ last'.rehashes[1].bucketSize = Capacity(MNext)
               /\ \E i \in 1..(Len(GrowthSequence) - 1) :
                      /\ Capacity(M) = GrowthSequence[i]
                      /\ size(MNext) = GrowthSequence[i]
                      /\ Capacity(MNext) = GrowthSequence[i + 1]
        /\ size(MNext) < Capacity(M) =>
               \A p \in Positions(M) :
                   Live(MNext, p) /\ Deref(MNext, p) = Deref(M, p)]_vars

\* the insert of a seventh key has grown the table from 7 to 12 buckets
C17_Witness ==
    /\ last.op = "insert" /\ ~last.had
    /\ last.capBefore = 7 /\ size(M) = 7
    /\ Capacity(M) = 12
    /\ Len(last.rehashes) = 1

\* the non-empty buckets after bucket b
LaterChains(m, b) == {c \in (b + 1)..Len(m.data) : m.data[c] # <<>>}

\* C18: advance moves a cursor that rests on an entry to the next entry of
\* the chain, else to the first entry of the next non-empty bucket, else
\* to the end state (one past the last bucket, no entry), which equals
\* end(); a cursor at end stays there; a cursor that begin() or advance
\* returned is at end or rests on an entry.
C18_Advance ==
    [][/\ last'.op = "advance" =>
            /\ (Live(M, cursor.pos) /\ cursor.pos.e < Len(data[cursor.pos.b]))
                   => cursor'.pos = It(cursor.pos.b, cursor.pos.e + 1)
            /\ (Live(M, cursor.pos) /\ cursor.pos.e = Len(data[cursor.pos.b])
                    /\ LaterChains(M, cursor.pos.b) # {})
                   => \E c \in LaterChains(M, cursor.pos.b) :
                          /\ \A o \in LaterChains(M, cursor.pos.b) : c <= o
                          /\ cursor'.pos = It(c, 1)
            /\ (Live(M, cursor.pos) /\ cursor.pos.e = Len(data[cursor.pos.b])
                    /\ LaterChains(M, cursor.pos.b) = {})
                   => /\ cursor'.pos = It(Len(data) + 1, 0)
                      /\ cursor'.pos = end(M)
            /\ cursor.pos = end(M) => cursor'.pos = end(M)
            /\ last'.it = cursor'.pos
       /\ last'.op \in {"begin", "advance"} =>
            (cursor'.pos = end(MNext) \/ Live(MNext, cursor'.pos))]_vars

\* advance has carried a cursor from the end of a chain over an empty
\* bucket to the first entry of a later chain
C18_Witness ==
    /\ last.op = "advance" /\ cursor # NoCursor /\ cursor.n >= 1
    /\ Live(M, cursor.pos) /\ cursor.pos.e = 1
    /\ cursor.pos.b >= 3
    /\ data[cursor.pos.b - 1] = <<>>
    /\ data[cursor.pos.b - 2] # <<>>

\* C19: erase never rehashes: its shrink test, size * 1.618033988^2 < the
\* length of the chain just modified, is false whenever it is evaluated
\* (the chain is no longer than the size), so erase keeps the capacity and
\* leaves every remaining entry in its bucket and in its order; only
\* clear, copy assignment and the step to a copy lower the capacity.
C19_EraseNeverRehashes ==
    [][/\ last'.op = "erase" =>
            /\ last'.rehashes = <<>>
            /\ Capacity(MNext) = Capacity(M)
            /\ \A b \in 1..Len(data) :
                   data'[b] = SelectSeq(data[b], LAMBDA e : e.first # last'.key)
            /\ StoredVals(M, last'.key) # {} =>
                   /\ ~ShrinkNeeded(size(MNext),
                                    Len(data'[(hasher[last'.key] % Len(data)) + 1]))
                   /\ Len(data'[(hasher[last'.key] % Len(data)) + 1])
                          <= size(MNext)
       /\ last'.op \notin {"clear", "assign", "HashMapCopy"} =>
            Capacity(MNext) >= Capacity(M)]_vars

\* erase has left one entry in a table of at least 4 buckets, in the chain
\* it removed another entry from
C19_Witness ==
    /\ last.op = "erase" /\ last.had
    /\ size(M) = 1 /\ Capacity(M) >= 4
    /\ Len(data[bucketIndex(M, last.key)]) = 1
    /\ last.rehashes = <<>>

\* the call of rehash is for more buckets than old_data has elements, is
\* not nested in another call of rehash, and returns with keyCount equal
\* to the number of elements old_data had
SoundRehash(r) ==
    /\ r.bucketSize > r.entries
    /\ r.open = 1
    /\ r.sizeAfter = r.entries

\* C20 as stated: a public call (insert, erase, indexAccess, a
\* constructor) makes at most one call of rehash, for more buckets than
\* there are entries to reinsert, with no rehash nested in it, and size is
\* afterwards the number of entries the old table held.
C20_AsStated ==
    /\ Len(last.rehashes) <= 1
    /\ \A i \in 1..Len(last.rehashes) : SoundRehash(last.rehashes[i])

\* C20, amended: a call of insert, erase or indexAccess makes at most one
\* call of rehash; a constructor or a copy may make several, one after the
\* other; every call of rehash is for more buckets than there are entries
\* to reinsert, has no rehash nested in it, and leaves size equal to the
\* number of entries the old table held.
C20_NoNestedRehash ==
    /\ last.op \in {"insert", "erase", "index"} => Len(last.rehashes) <= 1
    /\ \A i \in 1..Len(last.rehashes) : SoundRehash(last.rehashes[i])

\* a constructor of the second version has grown the table twice, to 2
\* and then to 4 buckets, while it inserted a list of two keys
C20_Witness ==
    /\ IsCtor(last) /\ version = 2
    /\ Len(last.rehashes) = 2
    /\ last.rehashes[2].entries = 2 /\ last.rehashes[2].bucketSize = 4
    /\ size(M) = 2 /\ Capacity(M) = 4

====
